---- MODULE Spec2Model ----
(***************************************************************************)
(* Model of backend/main.py: the credential store, the bearer-token        *)
(* service (python-jose HS256), the access guards, the upload handler and  *)
(* the two-step download-grant flow.                                       *)
(*                                                                         *)
(* The clock counts whole seconds: jose encodes and compares "exp" as      *)
(* whole seconds since the epoch.                                          *)
(***************************************************************************)
EXTENDS Integers, Sequences, FiniteSets, TLC

VARIABLES
    now,                 \* datetime.utcnow(), in whole seconds
    SECRET_KEY,          \* the process-wide signing key
    fake_users_db,       \* credential store: username -> account record
    files_db,            \* file registry: file_id -> file_info
    download_tokens_db,  \* grant table: download_token -> grant
    storage,             \* the FILE_STORAGE directory: path -> bytes
    uuid_count,          \* how many uuid4 values have been drawn
    issued,              \* per username, the bearer token its session holds
                         \* (the last one login returned), <<>> when none
    uploads,             \* upload_file coroutines suspended at an await
    response             \* the last request served and its HTTP response

vars == <<now, SECRET_KEY, fake_users_db, files_db, download_tokens_db,
          storage, uuid_count, issued, uploads, response>>

----------------------------------------------------------------------------
(* Bounds of the model *)

\* uuid4 values drawn (file ids and download tokens together)
MaxUuids == 3

----------------------------------------------------------------------------
(* Configuration, main.py lines 20-23 *)

ALGORITHM == "HS256"
ACCESS_TOKEN_EXPIRE_MINUTES == 30
FILE_STORAGE == "uploaded_files"

\* timedelta(minutes = m) in seconds
timedelta(m) == m * 60
\* create_access_token's fallback and the grant lifetime
DEFAULT_EXPIRE_MINUTES == 15
GRANT_EXPIRE_MINUTES == 30

\* keys the process may run under (the environment's or a generated one),
\* and a key the server never holds
ServerKeys == {"k1"}
ForeignKey == "kx"

\* the keys a restarted process may hold: the one it held before, when
\* SECRET_KEY is set in the environment, or one newly generated
RestartKeys == ServerKeys \cup {"k2"}

\* the seconds at which requests arrive. The file flows see the clock at
\* start-up and after the 30-minute windows opened at start-up have closed;
\* the token checks also see the second before and the expiry second itself
FlowInstants == {0, timedelta(GRANT_EXPIRE_MINUTES) + 1}
AuthInstants == {0, timedelta(ACCESS_TOKEN_EXPIRE_MINUTES) - 1,
                 timedelta(ACCESS_TOKEN_EXPIRE_MINUTES),
                 timedelta(ACCESS_TOKEN_EXPIRE_MINUTES) + 1}

\* issuance, the expiry second of a token issued at 0, and the second after
GateInstants == {0, timedelta(ACCESS_TOKEN_EXPIRE_MINUTES),
                 timedelta(ACCESS_TOKEN_EXPIRE_MINUTES) + 1}

----------------------------------------------------------------------------
(* Python dict: insertion-ordered map, kept as a sequence of [k, v] *)

DictKeys(d) == {d[i].k : i \in 1..Len(d)}
DictIndex(d, key) == CHOOSE i \in 1..Len(d) : d[i].k = key
DictGet(d, key) == d[DictIndex(d, key)].v
\* d[key] = val : replaces in place when the key exists, appends otherwise
DictSet(d, key, val) ==
    IF key \in DictKeys(d)
    THEN [d EXCEPT ![DictIndex(d, key)] = [k |-> key, v |-> val]]
    ELSE Append(d, [k |-> key, v |-> val])
\* variant: the values in reverse insertion order
DictValues_reversed(d) == [i \in 1..Len(d) |-> d[Len(d) + 1 - i].v]

\* list(d.values())
DictValues(d) == [i \in 1..Len(d) |-> d[i].v]

\* str(datetime)
Str(t) == <<"str", t>>
\* str(uuid.uuid4()): the n-th value drawn, distinct from all earlier ones
\* variant: the generator hands out the same id again
uuid4_repeating(n) == <<"uuid", 1>>
uuid4(n) == <<"uuid", n>>
\* os.path.join(FILE_STORAGE, file_id)
PathJoin(dir, name) == <<dir, "/", name>>

----------------------------------------------------------------------------
(* Password hasher, main.py lines 27, 80-81 *)

Salts == {"s1"}
PBKDF2(plain, salt) == <<"pbkdf2", plain, salt>>
\* pwd_context.hash: algorithm tag, salt, digest
pwd_hash(plain, salt) == <<"pbkdf2_sha256", salt, PBKDF2(plain, salt)>>
verify_password(plain_password, hashed_password) ==
    hashed_password[3] = PBKDF2(plain_password, hashed_password[2])

----------------------------------------------------------------------------
(* Credential store, main.py lines 49-66, 83-94 *)

UserRecord(name, mail, full, salt, dis, role) ==
    [username |-> name, email |-> mail, full_name |-> full,
     hashed_password |-> pwd_hash("secret", salt),
     disabled |-> dis, user_type |-> role]

\* the two provisioned accounts; s1, s2 are the salts drawn by pwd_context.hash
\* and d1, d2 the accounts' disabled flags (False in the table as shipped)
ProvisionedUsers(s1, s2, d1, d2) ==
    DictSet(DictSet(<<>>, "opsuser",
                UserRecord("opsuser", "ops@example.com", "Operation User", s1, d1,
                           "ops")),
            "clientuser",
            UserRecord("clientuser", "client@example.com", "Client User", s2, d2,
                       "client"))

\* an optional value is a sequence of length 0 (None) or 1
get_user(db, username) ==
    IF username \in DictKeys(db) THEN <<DictGet(db, username)>> ELSE <<>>

\* variant: the password is not verified
authenticate_user_anypassword(fake_db, username, password) ==
    get_user(fake_db, username)

authenticate_user(fake_db, username, password) ==
    LET user == get_user(fake_db, username) IN
    IF user = <<>> THEN <<>>
    ELSE IF ~verify_password(password, user[1].hashed_password) THEN <<>>
    ELSE user

----------------------------------------------------------------------------
(* Token service: jose.jwt with HS256, main.py lines 96-104, 113 *)

HMAC(key, msg) == <<"hmac", key, msg>>

\* a compact JWS is three dot-separated segments: header, claims, signature
jwt_encode(claims, key, algorithm) ==
    <<[alg |-> algorithm], claims, HMAC(key, <<algorithm, claims>>)>>

JWTError == <<>>

\* variant: the signature is not checked
jwt_decode_unverified(token, key, algorithms, t) ==
    IF Len(token) # 3 THEN JWTError
    ELSE IF token[1].alg \notin algorithms THEN JWTError
    ELSE IF "exp" \in DOMAIN token[2] /\ token[2].exp < t THEN JWTError
    ELSE <<token[2]>>

\* jwt.decode: parse, check the algorithm and the signature, then reject a
\* token whose exp lies strictly before the current second
\* variant: the signature is checked against whichever key made it
jwt_decode_anykey(token, key, algorithms, t) ==
    IF Len(token) # 3 THEN JWTError
    ELSE IF token[1].alg \notin algorithms THEN JWTError
    ELSE IF token[3] # HMAC(token[3][2], <<token[1].alg, token[2]>>) THEN JWTError
    ELSE IF "exp" \in DOMAIN token[2] /\ token[2].exp < t THEN JWTError
    ELSE <<token[2]>>

jwt_decode(token, key, algorithms, t) ==
    IF Len(token) # 3 THEN JWTError
    ELSE IF token[1].alg \notin algorithms THEN JWTError
    ELSE IF token[3] # HMAC(key, <<token[1].alg, token[2]>>) THEN JWTError
    ELSE IF "exp" \in DOMAIN token[2] /\ token[2].exp < t THEN JWTError
    ELSE <<token[2]>>

\* payload.get(field)
payload_get(payload, field) ==
    IF field \in DOMAIN payload THEN <<payload[field]>> ELSE <<>>

\* expires_delta is None (<<>>) or a number of seconds; a falsy delta (None, or a
\* zero timedelta) takes the 15-minute branch
create_access_token(data, expires_delta, key, t) ==
    LET expire == IF expires_delta # <<>> /\ expires_delta[1] # 0
                  THEN t + expires_delta[1]
                  ELSE t + timedelta(DEFAULT_EXPIRE_MINUTES)
    IN jwt_encode([sub |-> data.sub, user_type |-> data.user_type, exp |-> expire],
                  key, ALGORITHM)

----------------------------------------------------------------------------
(* Access guard, main.py lines 71, 106-140 *)

Reject(code, text) == [ok |-> FALSE, status |-> code, detail |-> text, user |-> <<>>]
Accept(u) == [ok |-> TRUE, status |-> 200, detail |-> "", user |-> <<u>>]

NoCred == <<>>
credentials_exception == Reject(401, "Could not validate credentials")

\* variant: a download token is taken for a credential of its grantee
get_current_user_grants(cred, db, key, t) ==
    IF cred = NoCred THEN Reject(401, "Not authenticated")
    ELSE IF Len(cred) = 1 /\ cred[1] \in DictKeys(download_tokens_db)
    THEN Accept(get_user(db, DictGet(download_tokens_db, cred[1]).user_id)[1])
    ELSE LET payload == jwt_decode(cred, key, {ALGORITHM}, t) IN
         IF payload = JWTError THEN credentials_exception
         ELSE LET username == payload_get(payload[1], "sub")
                  user_type == payload_get(payload[1], "user_type")
              IN IF username = <<>> \/ user_type = <<>> THEN credentials_exception
                 ELSE LET user == get_user(db, username[1]) IN
                      IF user = <<>> THEN credentials_exception
                      ELSE Accept(user[1])

\* OAuth2PasswordBearer, then get_current_user: the user returned is the
\* credential-store record of the token's subject
get_current_user(cred, db, key, t) ==
    IF cred = NoCred THEN Reject(401, "Not authenticated")
    ELSE LET payload == jwt_decode(cred, key, {ALGORITHM}, t) IN
         IF payload = JWTError THEN credentials_exception
         ELSE LET username == payload_get(payload[1], "sub")
                  user_type == payload_get(payload[1], "user_type")
              IN IF username = <<>> \/ user_type = <<>> THEN credentials_exception
                 ELSE LET user == get_user(db, username[1]) IN
                      IF user = <<>> THEN credentials_exception
                      ELSE Accept(user[1])

\* variants: the role is not compared
get_current_ops_user_anyrole(cred, db, key, t) ==
    get_current_user(cred, db, key, t)

get_current_client_user_anyrole(cred, db, key, t) ==
    get_current_user(cred, db, key, t)

get_current_ops_user(cred, db, key, t) ==
    LET current_user == get_current_user(cred, db, key, t) IN
    IF ~current_user.ok THEN current_user
    ELSE IF current_user.user[1].user_type # "ops"
         THEN Reject(403, "Only operation users can perform this action")
         ELSE current_user

get_current_client_user(cred, db, key, t) ==
    LET current_user == get_current_user(cred, db, key, t) IN
    IF ~current_user.ok THEN current_user
    ELSE IF current_user.user[1].user_type # "client"
         THEN Reject(403, "Only client users can perform this action")
         ELSE current_user

----------------------------------------------------------------------------
(* File-type validation, main.py lines 142-149.  A filename is a sequence  *)
(* of one-character strings.                                               *)

\* str.rfind: the last position of c in p, 0 when absent
rfind(p, c) ==
    IF \E i \in 1..Len(p) : p[i] = c
    THEN CHOOSE i \in 1..Len(p) : p[i] = c /\ \A j \in (i+1)..Len(p) : p[j] # c
    ELSE 0

\* os.path.splitext(p)[1]: from the last dot of the last path component,
\* unless only dots precede it in that component
splitext_ext(p) ==
    LET sepIndex == rfind(p, "/")
        dotIndex == rfind(p, ".")
    IN IF dotIndex > sepIndex /\ \E i \in (sepIndex+1)..(dotIndex-1) : p[i] # "."
       THEN SubSeq(p, dotIndex, Len(p))
       ELSE <<>>

Upper == <<"A","B","C","D","E","F","G","H","I","J","K","L","M",
           "N","O","P","Q","R","S","T","U","V","W","X","Y","Z">>
Lower == <<"a","b","c","d","e","f","g","h","i","j","k","l","m",
           "n","o","p","q","r","s","t","u","v","w","x","y","z">>
lower_char(c) ==
    IF \E i \in 1..Len(Upper) : Upper[i] = c
    THEN Lower[CHOOSE i \in 1..Len(Upper) : Upper[i] = c]
    ELSE c
\* str.lower
lower(p) == [i \in 1..Len(p) |-> lower_char(p[i])]

allowed_extensions == { <<".","p","p","t","x">>, <<".","d","o","c","x">>,
                        <<".","x","l","s","x">> }

\* variant: the extension is compared without lower()
validate_file_type_cased(filename) ==
    splitext_ext(filename) \in allowed_extensions

\* TRUE when validate_file_type returns, FALSE when it raises the 400
validate_file_type(filename) ==
    lower(splitext_ext(filename)) \in allowed_extensions

----------------------------------------------------------------------------
(* Request inputs *)

Usernames == {"opsuser", "clientuser", "nobody"}
Passwords == {"secret", "wrong"}

Filenames == { <<"Q","3",".","x","l","s","x">>,
               <<"R",".","P","P","T","X">>,
               <<"n",".","t","x","t">>,
               <<".","d","o","c","x">>,
               <<"a",".","d","o","c","x","/","b">> }

\* one supported and one unsupported filename
GateFilenames == { <<"Q","3",".","x","l","s","x">>, <<"n",".","t","x","t">> }

\* uploaded bytes, as a sequence of chunks
Contents == { <<"bytes1", "bytes2">> }

OtherUser(u) == IF u = "opsuser" THEN "clientuser" ELSE "opsuser"
OtherRole(r) == IF r = "ops" THEN "client" ELSE "ops"

\* what a party without the key can make of an issued token
Tampered(t) ==
    { <<t[1], [t[2] EXCEPT !.sub = OtherUser(@)], t[3]>>,
      jwt_encode([t[2] EXCEPT !.exp = @ + timedelta(ACCESS_TOKEN_EXPIRE_MINUTES)],
                 ForeignKey, ALGORITHM) }

\* bearer credentials a request may carry
Held == {issued[u][1] : u \in {v \in DOMAIN issued : issued[v] # <<>>}}

\* bearer credentials of callers that only replay what the server gave them
Creds == {NoCred} \cup Held

\* bearer credentials of callers that also alter tokens or invent strings
AuthCreds == Creds \cup {<<uuid4(0)>>} \cup UNION {Tampered(t) : t \in Held}

\* a token signed with the server's key (SECRET_KEY read from the
\* environment) whose role claim is not the role the credential store records
\* for its subject: the token argument of the guard is any string
Reissued(t) ==
    jwt_encode([t[2] EXCEPT !.user_type = OtherRole(@)], SECRET_KEY, ALGORITHM)

\* bearer credentials whose role claim agrees or disagrees with the store
RoleCreds == Held \cup {Reissued(t) : t \in Held}

\* the arguments of create_access_token: the claims of a stored account,
\* and no expires_delta or one of zero, one second or thirty minutes
TokenData ==
    {[sub |-> fake_users_db[i].v.username, user_type |-> fake_users_db[i].v.user_type] :
        i \in 1..Len(fake_users_db)}
ExpiresDeltas == {<<>>, <<0>>, <<1>>, <<timedelta(ACCESS_TOKEN_EXPIRE_MINUTES)>>}

\* the token create_access_token has just returned
Minted == IF response.op = "create_access_token" THEN {response.body[1]} ELSE {}

DrawnUuids == {uuid4(n) : n \in 0..uuid_count}

\* a download token sent in the Authorization header as if a bearer token
GrantCreds == {<<download_tokens_db[i].k>> : i \in 1..Len(download_tokens_db)}

Response(o, c, a, st, de, b) ==
    [op |-> o, at |-> now, cred |-> c, arg |-> a, status |-> st, detail |-> de,
     body |-> b]

----------------------------------------------------------------------------
(* Routes *)

\* variant: an unknown username is told apart from a wrong password
Login_namesUnknownUser(username, password) ==
    LET user == authenticate_user(fake_users_db, username, password) IN
    /\ IF get_user(fake_users_db, username) = <<>>
       THEN /\ response' = Response("login", NoCred, <<username, password>>, 404,
                                    "User not found", <<>>)
            /\ UNCHANGED issued
       ELSE IF user = <<>>
       THEN /\ response' = Response("login", NoCred, <<username, password>>, 401,
                                    "Incorrect username or password", <<>>)
            /\ UNCHANGED issued
       ELSE LET access_token_expires == <<timedelta(ACCESS_TOKEN_EXPIRE_MINUTES)>>
                access_token ==
                    create_access_token([sub |-> user[1].username,
                                         user_type |-> user[1].user_type],
                                        access_token_expires, SECRET_KEY, now)
            IN /\ issued' = [issued EXCEPT ![username] = <<access_token>>]
               /\ response' = Response("login", NoCred, <<username, password>>, 200, "",
                                       [access_token |-> access_token,
                                        token_type |-> "bearer"])
    /\ UNCHANGED <<now, SECRET_KEY, fake_users_db, files_db, download_tokens_db,
                   storage, uuid_count, uploads>>

\* POST /token, main.py lines 152-166
Login(username, password) ==
    LET user == authenticate_user(fake_users_db, username, password) IN
    /\ IF user = <<>>
       THEN /\ response' = Response("login", NoCred, <<username, password>>, 401,
                                    "Incorrect username or password", <<>>)
            /\ UNCHANGED issued
       ELSE LET access_token_expires == <<timedelta(ACCESS_TOKEN_EXPIRE_MINUTES)>>
                access_token ==
                    create_access_token([sub |-> user[1].username,
                                         user_type |-> user[1].user_type],
                                        access_token_expires, SECRET_KEY, now)
            IN /\ issued' = [issued EXCEPT ![username] = <<access_token>>]
               /\ response' = Response("login", NoCred, <<username, password>>, 200, "",
                                       [access_token |-> access_token,
                                        token_type |-> "bearer"])
    /\ UNCHANGED <<now, SECRET_KEY, fake_users_db, files_db, download_tokens_db,
                   storage, uuid_count, uploads>>

\* create_access_token called on its own, main.py lines 96-104
CreateAccessToken(data, expires_delta) ==
    /\ response' = Response("create_access_token", NoCred,
                            [data |-> data, expires_delta |-> expires_delta], 0, "",
                            <<create_access_token(data, expires_delta, SECRET_KEY, now)>>)
    /\ UNCHANGED <<now, SECRET_KEY, fake_users_db, files_db, download_tokens_db,
                   storage, uuid_count, issued, uploads>>

\* GET /me, main.py lines 233-235
ReadUsersMe(cred) ==
    LET current_user == get_current_user(cred, fake_users_db, SECRET_KEY, now) IN
    /\ response' = Response("read_users_me", cred, <<>>, current_user.status,
                            current_user.detail, current_user.user)
    /\ UNCHANGED <<now, SECRET_KEY, fake_users_db, files_db, download_tokens_db,
                   storage, uuid_count, issued, uploads>>

\* POST /ops/upload, main.py lines 168-191, run without interleaving
UploadFile(cred, filename, content) ==
    LET current_user == get_current_ops_user(cred, fake_users_db, SECRET_KEY, now) IN
    IF ~current_user.ok
    THEN /\ response' = Response("upload_file", cred, filename, current_user.status,
                                 current_user.detail, <<>>)
         /\ UNCHANGED <<now, SECRET_KEY, fake_users_db, files_db, download_tokens_db,
                        storage, uuid_count, issued, uploads>>
    ELSE IF ~validate_file_type(filename)
    THEN /\ response' = Response("upload_file", cred, filename, 400,
                                 "Only .pptx, .docx, .xlsx files are allowed", <<>>)
         /\ UNCHANGED <<now, SECRET_KEY, fake_users_db, files_db, download_tokens_db,
                        storage, uuid_count, issued, uploads>>
    ELSE LET file_id == uuid4(uuid_count + 1)
             file_path == PathJoin(FILE_STORAGE, file_id)
             file_info == [file_id |-> file_id, filename |-> filename,
                           uploaded_by |-> current_user.user[1].username,
                           upload_date |-> Str(now), file_path |-> file_path]
         IN /\ uuid_count < MaxUuids
            /\ uuid_count' = uuid_count + 1
            /\ storage' = DictSet(storage, file_path, content)
            /\ files_db' = DictSet(files_db, file_id, file_info)
            /\ response' = Response("upload_file", cred, filename, 200, "",
                                    [message |-> "File uploaded successfully",
                                     file_id |-> file_id])
            /\ UNCHANGED <<now, SECRET_KEY, fake_users_db, download_tokens_db,
                           issued, uploads>>

\* variant: the record is registered as soon as the file is opened
UploadBegin_registers(cred, filename, content) ==
    LET current_user == get_current_ops_user(cred, fake_users_db, SECRET_KEY, now) IN
    IF ~current_user.ok
    THEN /\ response' = Response("upload_file", cred, filename, current_user.status,
                                 current_user.detail, <<>>)
         /\ UNCHANGED <<now, SECRET_KEY, fake_users_db, files_db, download_tokens_db,
                        storage, uuid_count, issued, uploads>>
    ELSE IF ~validate_file_type(filename)
    THEN /\ response' = Response("upload_file", cred, filename, 400,
                                 "Only .pptx, .docx, .xlsx files are allowed", <<>>)
         /\ UNCHANGED <<now, SECRET_KEY, fake_users_db, files_db, download_tokens_db,
                        storage, uuid_count, issued, uploads>>
    ELSE LET file_id == uuid4(uuid_count + 1)
             file_path == PathJoin(FILE_STORAGE, file_id)
             file_info == [file_id |-> file_id, filename |-> filename,
                           uploaded_by |-> current_user.user[1].username,
                           upload_date |-> Str(now), file_path |-> file_path]
         IN /\ uuid_count < MaxUuids
            /\ uuid_count' = uuid_count + 1
            /\ storage' = DictSet(storage, file_path, <<>>)
            /\ files_db' = DictSet(files_db, file_id, file_info)
            /\ uploads' = uploads \cup
                   {[file_id |-> file_id, file_path |-> file_path,
                     filename |-> filename, file |-> content, cred |-> cred,
                     current_user |-> current_user.user[1], pc |-> "opened"]}
            /\ UNCHANGED <<now, SECRET_KEY, fake_users_db,
                           download_tokens_db, issued, response>>

\* POST /ops/upload, main.py lines 168-178: the guard, the file-type check,
\* the fresh id, and aiofiles.open creating the empty file
UploadBegin(cred, filename, content) ==
    LET current_user == get_current_ops_user(cred, fake_users_db, SECRET_KEY, now) IN
    IF ~current_user.ok
    THEN /\ response' = Response("upload_file", cred, filename, current_user.status,
                                 current_user.detail, <<>>)
         /\ UNCHANGED <<now, SECRET_KEY, fake_users_db, files_db, download_tokens_db,
                        storage, uuid_count, issued, uploads>>
    ELSE IF ~validate_file_type(filename)
    THEN /\ response' = Response("upload_file", cred, filename, 400,
                                 "Only .pptx, .docx, .xlsx files are allowed", <<>>)
         /\ UNCHANGED <<now, SECRET_KEY, fake_users_db, files_db, download_tokens_db,
                        storage, uuid_count, issued, uploads>>
    ELSE LET file_id == uuid4(uuid_count + 1)
             file_path == PathJoin(FILE_STORAGE, file_id)
         IN /\ uuid_count < MaxUuids
            /\ uuid_count' = uuid_count + 1
            /\ storage' = DictSet(storage, file_path, <<>>)
            /\ uploads' = uploads \cup
                   {[file_id |-> file_id, file_path |-> file_path,
                     filename |-> filename, file |-> content, cred |-> cred,
                     current_user |-> current_user.user[1], pc |-> "opened"]}
            /\ UNCHANGED <<now, SECRET_KEY, fake_users_db, files_db,
                           download_tokens_db, issued, response>>

\* main.py lines 179-180: content = await file.read(); await out_file.write(content).
\* Until the file is closed only the first n chunks need have reached the disk.
UploadWrite(u, n) ==
    /\ u.pc = "opened"
    /\ storage' = DictSet(storage, u.file_path, SubSeq(u.file, 1, n))
    /\ uploads' = (uploads \ {u}) \cup {[u EXCEPT !.pc = "written"]}
    /\ UNCHANGED <<now, SECRET_KEY, fake_users_db, files_db, download_tokens_db,
                   uuid_count, issued, response>>

\* main.py lines 178, 182-191: leaving the async with closes (and flushes)
\* the file, then the record is registered and the response returned
UploadFinish(u) ==
    /\ u.pc = "written"
    /\ storage' = DictSet(storage, u.file_path, u.file)
    /\ LET file_info == [file_id |-> u.file_id, filename |-> u.filename,
                         uploaded_by |-> u.current_user.username,
                         upload_date |-> Str(now), file_path |-> u.file_path]
       IN files_db' = DictSet(files_db, u.file_id, file_info)
    /\ uploads' = uploads \ {u}
    /\ response' = Response("upload_file", u.cred, u.filename, 200, "",
                            [message |-> "File uploaded successfully",
                             file_id |-> u.file_id])
    /\ UNCHANGED <<now, SECRET_KEY, fake_users_db, download_tokens_db, uuid_count,
                   issued>>

\* GET /client/files, main.py lines 193-195
ListFiles(cred) ==
    LET current_user == get_current_client_user(cred, fake_users_db, SECRET_KEY, now) IN
    /\ response' = IF ~current_user.ok
                   THEN Response("list_files", cred, <<>>, current_user.status,
                                 current_user.detail, <<>>)
                   ELSE Response("list_files", cred, <<>>, 200, "",
                                 DictValues(files_db))
    /\ UNCHANGED <<now, SECRET_KEY, fake_users_db, files_db, download_tokens_db,
                   storage, uuid_count, issued, uploads>>

\* variant: a link is made without looking the file id up
GetDownloadLink_unchecked(cred, file_id) ==
    LET current_user == get_current_client_user(cred, fake_users_db, SECRET_KEY, now) IN
    IF ~current_user.ok
    THEN /\ response' = Response("get_download_link", cred, file_id,
                                 current_user.status, current_user.detail, <<>>)
         /\ UNCHANGED <<now, SECRET_KEY, fake_users_db, files_db, download_tokens_db,
                        storage, uuid_count, issued, uploads>>
    ELSE LET download_token == uuid4(uuid_count + 1) IN
         /\ uuid_count < MaxUuids
         /\ uuid_count' = uuid_count + 1
         /\ download_tokens_db' =
                DictSet(download_tokens_db, download_token,
                        [file_id |-> file_id,
                         user_id |-> current_user.user[1].username,
                         expires |-> Str(now + timedelta(GRANT_EXPIRE_MINUTES))])
         /\ response' = Response("get_download_link", cred, file_id, 200, "",
                                 [download_link |-> <<"/download-file/", download_token>>,
                                  message |-> "success"])
         /\ UNCHANGED <<now, SECRET_KEY, fake_users_db, files_db, storage, issued,
                        uploads>>

\* GET /client/download/{file_id}, main.py lines 197-215
GetDownloadLink(cred, file_id) ==
    LET current_user == get_current_client_user(cred, fake_users_db, SECRET_KEY, now) IN
    IF ~current_user.ok
    THEN /\ response' = Response("get_download_link", cred, file_id,
                                 current_user.status, current_user.detail, <<>>)
         /\ UNCHANGED <<now, SECRET_KEY, fake_users_db, files_db, download_tokens_db,
                        storage, uuid_count, issued, uploads>>
    ELSE IF file_id \notin DictKeys(files_db)
    THEN /\ response' = Response("get_download_link", cred, file_id, 404,
                                 "File not found", <<>>)
         /\ UNCHANGED <<now, SECRET_KEY, fake_users_db, files_db, download_tokens_db,
                        storage, uuid_count, issued, uploads>>
    ELSE LET download_token == uuid4(uuid_count + 1) IN
         /\ uuid_count < MaxUuids
         /\ uuid_count' = uuid_count + 1
         /\ download_tokens_db' =
                DictSet(download_tokens_db, download_token,
                        [file_id |-> file_id,
                         user_id |-> current_user.user[1].username,
                         expires |-> Str(now + timedelta(GRANT_EXPIRE_MINUTES))])
         /\ response' = Response("get_download_link", cred, file_id, 200, "",
                                 [download_link |-> <<"/download-file/", download_token>>,
                                  message |-> "success"])
         /\ UNCHANGED <<now, SECRET_KEY, fake_users_db, files_db, storage, issued,
                        uploads>>

\* variant: the first record of the registry is served, whatever the grant
DownloadFile_first(token) ==
    /\ response' =
         IF token \notin DictKeys(download_tokens_db)
         THEN Response("download_file", NoCred, token, 404, "Invalid download link", <<>>)
         ELSE LET file_info == files_db[1].v IN
              Response("download_file", NoCred, token, 200, "",
                       [path |-> file_info.file_path,
                        filename |-> file_info.filename,
                        media_type |-> "application/octet-stream",
                        content |-> DictGet(storage, file_info.file_path)])
    /\ UNCHANGED <<now, SECRET_KEY, fake_users_db, files_db, download_tokens_db,
                   storage, uuid_count, issued, uploads>>

\* variant: a grant is consumed by its first redemption
DownloadFile_once(token) ==
    /\ response' =
         IF token \notin DictKeys(download_tokens_db)
         THEN Response("download_file", NoCred, token, 404, "Invalid download link", <<>>)
         ELSE LET file_id == DictGet(download_tokens_db, token).file_id IN
              IF file_id \notin DictKeys(files_db)
              THEN Response("download_file", NoCred, token, 404, "File not found", <<>>)
              ELSE LET file_info == DictGet(files_db, file_id) IN
                   Response("download_file", NoCred, token, 200, "",
                            [path |-> file_info.file_path,
                             filename |-> file_info.filename,
                             media_type |-> "application/octet-stream",
                             content |-> DictGet(storage, file_info.file_path)])
    /\ download_tokens_db' = SelectSeq(download_tokens_db, LAMBDA e : e.k # token)
    /\ UNCHANGED <<now, SECRET_KEY, fake_users_db, files_db,
                   storage, uuid_count, issued, uploads>>

\* GET /download-file/{token}, main.py lines 217-231
DownloadFile(token) ==
    /\ response' =
         IF token \notin DictKeys(download_tokens_db)
         THEN Response("download_file", NoCred, token, 404, "Invalid download link", <<>>)
         ELSE LET file_id == DictGet(download_tokens_db, token).file_id IN
              IF file_id \notin DictKeys(files_db)
              THEN Response("download_file", NoCred, token, 404, "File not found", <<>>)
              ELSE LET file_info == DictGet(files_db, file_id) IN
                   Response("download_file", NoCred, token, 200, "",
                            [path |-> file_info.file_path,
                             filename |-> file_info.filename,
                             media_type |-> "application/octet-stream",
                             content |-> DictGet(storage, file_info.file_path)])
    /\ UNCHANGED <<now, SECRET_KEY, fake_users_db, files_db, download_tokens_db,
                   storage, uuid_count, issued, uploads>>

\* the process is stopped and started again: the module-level tables are
\* built anew (main.py lines 20, 49-69), the files on disk and the tokens in
\* the callers' hands stay
Restart(key) ==
    /\ SECRET_KEY' = key
    /\ \E s1, s2 \in Salts : fake_users_db' = ProvisionedUsers(s1, s2, FALSE, FALSE)
    /\ files_db' = <<>>
    /\ download_tokens_db' = <<>>
    /\ uploads' = {}
    /\ response' = [op |-> "none", at |-> 0, cred |-> NoCred, arg |-> <<>>,
                    status |-> 0, detail |-> "", body |-> <<>>]
    /\ UNCHANGED <<now, storage, uuid_count, issued>>

\* datetime.utcnow() advances between requests
Tick(instants) ==
    /\ \E t \in instants : t > now /\ now' = t
    /\ UNCHANGED <<SECRET_KEY, fake_users_db, files_db, download_tokens_db, storage,
                   uuid_count, issued, uploads, response>>

----------------------------------------------------------------------------

\* the state every process starts in, but for the credential store
InitRest ==
    /\ now = 0
    /\ SECRET_KEY \in ServerKeys
    /\ files_db = <<>>
    /\ download_tokens_db = <<>>
    /\ storage = <<>>
    /\ uuid_count = 0
    /\ issued = [u \in Usernames |-> <<>>]
    /\ uploads = {}
    /\ response = [op |-> "none", at |-> 0, cred |-> NoCred, arg |-> <<>>,
                   status |-> 0, detail |-> "", body |-> <<>>]

Init ==
    /\ \E s1, s2 \in Salts : fake_users_db = ProvisionedUsers(s1, s2, FALSE, FALSE)
    /\ InitRest

\* the credential store provisioned with either value of each disabled flag
InitProvision ==
    /\ \E s1, s2 \in Salts, d1, d2 \in BOOLEAN :
           fake_users_db = ProvisionedUsers(s1, s2, d1, d2)
    /\ InitRest

Next ==
    \/ \E username \in Usernames, password \in Passwords : Login(username, password)
    \/ \E cred \in Creds : ReadUsersMe(cred)
    \/ \E cred \in Creds, filename \in Filenames, content \in Contents :
           UploadFile(cred, filename, content)
    \/ \E cred \in Creds : ListFiles(cred)
    \/ \E cred \in Creds, file_id \in DrawnUuids : GetDownloadLink(cred, file_id)
    \/ \E token \in DrawnUuids : DownloadFile(token)
    \/ Tick(FlowInstants)

\* the token service and the guards alone, under altered and invented
\* credentials and a clock that stops at the expiry second
NextAuth ==
    \/ \E username \in Usernames, password \in Passwords : Login(username, password)
    \/ \E cred \in AuthCreds : ReadUsersMe(cred)
    \/ \E cred \in AuthCreds : ListFiles(cred)
    \/ Tick(AuthInstants)

\* the file flows with the upload handler suspended at its awaits, so that
\* other requests run between its steps
NextAsync ==
    \/ \E username \in Usernames, password \in Passwords : Login(username, password)
    \/ \E cred \in Creds, filename \in GateFilenames, content \in Contents :
           UploadBegin(cred, filename, content)
    \/ \E u \in uploads : \E n \in 0..Len(u.file) : UploadWrite(u, n)
    \/ \E u \in uploads : UploadFinish(u)
    \/ \E cred \in Creds : ListFiles(cred)
    \/ \E cred \in Creds, file_id \in DrawnUuids : GetDownloadLink(cred, file_id)
    \/ \E token \in DrawnUuids : DownloadFile(token)

\* the file flows with each kind of token also offered where the other
\* kind belongs: download tokens as bearer credentials, bearer tokens as
\* download tokens
NextCapability ==
    \/ \E username \in Usernames, password \in Passwords : Login(username, password)
    \/ \E cred \in Creds \cup GrantCreds : ReadUsersMe(cred)
    \/ \E cred \in Creds \cup GrantCreds, filename \in Filenames, content \in Contents :
           UploadFile(cred, filename, content)
    \/ \E cred \in Creds \cup GrantCreds : ListFiles(cred)
    \/ \E cred \in Creds \cup GrantCreds, file_id \in DrawnUuids :
           GetDownloadLink(cred, file_id)
    \/ \E token \in DrawnUuids \cup Held : DownloadFile(token)

\* the role gates under validly signed tokens of either role claim
NextRoleClaim ==
    \/ \E username \in Usernames, password \in Passwords : Login(username, password)
    \/ \E cred \in RoleCreds : ReadUsersMe(cred)
    \/ \E cred \in RoleCreds, filename \in Filenames, content \in Contents :
           UploadFile(cred, filename, content)
    \/ \E cred \in RoleCreds : ListFiles(cred)
    \/ Tick(FlowInstants)

\* the role-gated routes under altered and invented credentials, unknown
\* file ids and unsupported filenames, with a clock that stops at the
\* expiry second
NextGate ==
    \/ \E username \in Usernames, password \in Passwords : Login(username, password)
    \/ \E cred \in AuthCreds, filename \in GateFilenames, content \in Contents :
           UploadFile(cred, filename, content)
    \/ \E cred \in AuthCreds : ListFiles(cred)
    \/ \E cred \in AuthCreds, file_id \in DrawnUuids : GetDownloadLink(cred, file_id)
    \/ Tick(GateInstants)

\* the token service: create_access_token under each expires_delta, and the
\* guard on what it returned
NextIssue ==
    \/ \E username \in Usernames, password \in Passwords : Login(username, password)
    \/ \E data \in TokenData, expires_delta \in ExpiresDeltas :
           CreateAccessToken(data, expires_delta)
    \/ \E cred \in Held \cup Minted : ReadUsersMe(cred)
    \/ Tick(AuthInstants)

\* the token service and the guards across restarts of the process
NextRestart ==
    \/ \E username \in Usernames, password \in Passwords : Login(username, password)
    \/ \E cred \in Creds : ReadUsersMe(cred)
    \/ \E cred \in Creds : ListFiles(cred)
    \/ Tick(AuthInstants)
    \/ \E key \in RestartKeys : Restart(key)

Spec == Init /\ [][Next]_vars
SpecRestart == Init /\ [][NextRestart]_vars
SpecIssue == Init /\ [][NextIssue]_vars
SpecGate == Init /\ [][NextGate]_vars
SpecRoleClaim == Init /\ [][NextRoleClaim]_vars
SpecCapability == Init /\ [][NextCapability]_vars
SpecAsync == Init /\ [][NextAsync]_vars
SpecAuth == Init /\ [][NextAuth]_vars
SpecProvision == InitProvision /\ [][NextAuth]_vars

----------------------------------------------------------------------------
(* Vocabulary of the properties *)

GuardedOps == {"read_users_me", "list_files", "upload_file", "get_download_link"}

\* the credential-store record of a username, found by scanning the table
Accounts(u) == {fake_users_db[i].v : i \in {j \in 1..Len(fake_users_db) :
                                              fake_users_db[j].v.username = u}}
StoredRoles(u) == {a.user_type : a \in Accounts(u)}

\* the last request carried a bearer token handed out by login, and arrived
\* strictly before that token's expiry second
ByHolder == response.cred \in Held
InTime == response.at < response.cred[2].exp
Caller == response.cred[2].sub

\* the second a grant's "expires" string denotes
GrantExpiry(g) == g.expires[2]
Grants(token) == {download_tokens_db[i].v : i \in {j \in 1..Len(download_tokens_db) :
                                                      download_tokens_db[j].k = token}}
Records(file_id) == {files_db[i].v : i \in {j \in 1..Len(files_db) :
                                              files_db[j].v.file_id = file_id}}

----------------------------------------------------------------------------
(* Download grants *)

\* C1: a grant redeemed later than 30 minutes after it was created is
\* answered 404 and never with the file.
C1_ExpiredGrantIsNotFound ==
    (/\ response.op = "download_file"
     /\ \E g \in Grants(response.arg) : response.at > GrantExpiry(g))
    => response.status = 404

----------------------------------------------------------------------------
(* Access guard and token service *)

\* C2: a request whose bearer token names a subject that is missing from
\* the credential store, or whose account is disabled, is answered 401 by
\* every guarded operation.
C2_DisabledOrMissingIsUnauthenticated ==
    (/\ response.op \in GuardedOps
     /\ Len(response.cred) = 3
     /\ \/ Accounts(Caller) = {}
        \/ \E a \in Accounts(Caller) : a.disabled)
    => response.status = 401

\* C3: login answers 200 with a token exactly for the username/password
\* pairs of the credential store, and 401 without a token otherwise; the
\* guard, given a token from login before its expiry, resolves the token's
\* username and the role stored for it.
C3_LoginThenGuard ==
    /\ response.op = "login" =>
          LET username == response.arg[1]
              password == response.arg[2]
              matches == Accounts(username) # {} /\ password = "secret"
          IN /\ matches <=> response.status = 200
             /\ ~matches => response.status = 401 /\ response.body = <<>>
             /\ matches =>
                   /\ response.body.access_token[2].sub = username
                   /\ response.body.access_token[2].user_type \in StoredRoles(username)
                   /\ response.body.access_token \in Held
    /\ \A u \in Usernames : issued[u] # <<>> =>
          /\ Accounts(u) # {}
          /\ issued[u][1][2].sub = u
    /\ (response.op = "read_users_me" /\ ByHolder /\ InTime) =>
          /\ response.status = 200
          /\ response.body[1].username = Caller
          /\ response.body[1].user_type \in StoredRoles(Caller)
          /\ response.body[1].user_type = response.cred[2].user_type

C3_Witness ==
    /\ response.op = "read_users_me"
    /\ ByHolder /\ InTime
    /\ response.at > 0
    /\ response.status = 200
    /\ response.body[1].username = "clientuser"

\* C4: a token from login is answered 401 by the guard whenever the request
\* arrives at or after the token's expiry second, the expiry second itself
\* included.
C4_RejectedFromExpiryOn ==
    (/\ response.op \in GuardedOps
     /\ ByHolder
     /\ response.at >= response.cred[2].exp)
    => response.status = 401

\* C5: the guard lets a request through only if its bearer token is one
\* that login handed out, and resolves the subject and role signed in it.
C5_OnlyIssuedTokensPass ==
    (response.op \in GuardedOps /\ response.status # 401) =>
        /\ ByHolder
        /\ response.op = "read_users_me" =>
              /\ response.body[1].username = Caller
              /\ response.body[1].user_type = response.cred[2].user_type

C5_Witness ==
    /\ response.op = "read_users_me"
    /\ response.cred \in UNION {Tampered(t) : t \in Held}
    /\ response.status = 401

----------------------------------------------------------------------------
(* Role gates, upload and the file registry *)

Authenticated == ByHolder /\ InTime

\* C6: asking for a download link as an authenticated non-client is
\* answered 403, and as a client for a file id outside the registry 404;
\* neither changes the grant table, which gains an entry only through a
\* client's request for a registered file.
C6_Responses ==
    (response.op = "get_download_link" /\ Authenticated) =>
        /\ StoredRoles(Caller) # {"client"} => response.status = 403
        /\ (StoredRoles(Caller) = {"client"} /\ Records(response.arg) = {})
              => response.status = 404

C6_GrantOnlyForClientAndFile ==
    /\ []C6_Responses
    /\ [][ /\ (response'.op = "get_download_link" /\ response'.status # 200)
                 => download_tokens_db' = download_tokens_db
           /\ download_tokens_db' # download_tokens_db =>
                 /\ response'.op = "get_download_link"
                 /\ response'.status = 200
                 /\ response'.cred \in Held
                 /\ StoredRoles(response'.cred[2].sub) = {"client"}
                 /\ Records(response'.arg) # {}
                 /\ Len(download_tokens_db') = Len(download_tokens_db) + 1
                 /\ SubSeq(download_tokens_db', 1, Len(download_tokens_db))
                        = download_tokens_db
                 /\ download_tokens_db'[Len(download_tokens_db')].v.file_id
                        = response'.arg
         ]_vars

C6_Witness ==
    /\ response.op = "get_download_link"
    /\ Authenticated
    /\ StoredRoles(Caller) = {"client"}
    /\ Records(response.arg) = {}
    /\ response.status = 404
    /\ Len(download_tokens_db) > 0

\* the filename ends, letter case aside, in one of the three extensions,
\* and the extension is preceded by a name within the last path component
SameLetter(c, d) ==
    c = d \/ \E i \in 1..Len(Upper) : {c, d} = {Upper[i], Lower[i]}
EndsWith(f, e) ==
    /\ Len(f) > Len(e)
    /\ \A i \in 1..Len(e) : SameLetter(f[Len(f) - Len(e) + i], e[i])
    /\ \E i \in 1..(Len(f) - Len(e)) :
          /\ f[i] \notin {".", "/"}
          /\ \A j \in i..(Len(f) - Len(e)) : f[j] # "/"
HasAllowedExtension(f) ==
    \/ EndsWith(f, <<".","p","p","t","x">>)
    \/ EndsWith(f, <<".","d","o","c","x">>)
    \/ EndsWith(f, <<".","x","l","s","x">>)

\* C7: an upload by an authenticated caller who is not ops is answered 403
\* and changes neither the stored bytes nor the registry; every record of
\* the registry comes from a request that passed the ops gate.
C7_Responses ==
    /\ (response.op = "upload_file" /\ Authenticated /\ StoredRoles(Caller) # {"ops"})
          => response.status = 403
    /\ \A i \in 1..Len(files_db) : StoredRoles(files_db[i].v.uploaded_by) = {"ops"}

C7_UploadOnlyByOps ==
    /\ []C7_Responses
    /\ [][ /\ (response'.op = "upload_file" /\ response'.status = 403)
                 => (files_db' = files_db /\ storage' = storage)
           /\ (files_db' # files_db \/ storage' # storage) =>
                 /\ response'.op = "upload_file"
                 /\ response'.status = 200
                 /\ response'.cred \in Held
                 /\ response'.at < response'.cred[2].exp
                 /\ StoredRoles(response'.cred[2].sub) = {"ops"}
         ]_vars

C7_Witness ==
    /\ response.op = "upload_file"
    /\ Authenticated
    /\ Caller = "clientuser"
    /\ HasAllowedExtension(response.arg)
    /\ response.status = 403
    /\ Len(files_db) > 0

\* C8: redeeming a token that is not in the grant table is answered 404;
\* redeeming a known, unexpired one returns the locator, the filename and
\* the bytes of the record the grant was created for, and of no other.
C8_RedeemReturnsGrantedFile ==
    /\ (response.op = "get_download_link" /\ response.status = 200) =>
          \A g \in Grants(response.body.download_link[2]) : g.file_id = response.arg
    /\ response.op = "download_file" =>
          /\ Grants(response.arg) = {} => response.status = 404
          /\ \A g \in Grants(response.arg) : response.at <= GrantExpiry(g) =>
                /\ response.status = 200
                /\ response.body.path = PathJoin(FILE_STORAGE, g.file_id)
                /\ \E f \in Records(g.file_id) :
                      /\ response.body.path = f.file_path
                      /\ response.body.filename = f.filename
                /\ \A i \in 1..Len(files_db) :
                      files_db[i].v.file_id # g.file_id
                         => response.body.path # files_db[i].v.file_path
                /\ \E i \in 1..Len(storage) :
                      /\ storage[i].k = response.body.path
                      /\ storage[i].v = response.body.content

C8_Witness ==
    /\ response.op = "download_file"
    /\ response.status = 200
    /\ \E g \in Grants(response.arg) : response.at <= GrantExpiry(g)
    /\ Len(files_db) = 2
    /\ files_db[1].v.filename # files_db[2].v.filename
    /\ response.body.filename = files_db[2].v.filename

\* C9: an upload that passes the ops gate is accepted exactly when the
\* filename has one of the extensions .pptx, .docx, .xlsx in any letter
\* case, and is otherwise answered 400 with bytes and registry untouched.
C9_Responses ==
    /\ (response.op = "upload_file" /\ Authenticated /\ StoredRoles(Caller) = {"ops"}) =>
          /\ HasAllowedExtension(response.arg) <=> response.status = 200
          /\ ~HasAllowedExtension(response.arg) => response.status = 400
    /\ (response.op = "upload_file" /\ response.status = 200) =>
          \E f \in Records(response.body.file_id) : f.filename = response.arg

C9_AcceptsExactlyOfficeExtensions ==
    /\ []C9_Responses
    /\ [][ (response'.op = "upload_file" /\ response'.status = 400)
              => (files_db' = files_db /\ storage' = storage /\ uuid_count' = uuid_count)
         ]_vars

C9_Witness ==
    /\ response.op = "upload_file"
    /\ response.status = 200
    /\ response.arg = <<"R",".","P","P","T","X">>

\* C10: a client's listing is the registry in full and in the order the
\* uploads were registered, whoever uploaded and whoever asks.
C10_ListIsWholeRegistryInOrder ==
    /\ (response.op = "list_files" /\ Authenticated /\ StoredRoles(Caller) = {"client"})
          => response.status = 200
    /\ (response.op = "list_files" /\ response.status = 200) =>
          /\ Len(response.body) = Len(storage)
          /\ \A i \in 1..Len(response.body) :
                /\ response.body[i].file_path = storage[i].k
                /\ response.body[i] \in Records(response.body[i].file_id)
          /\ \A i, j \in 1..Len(response.body) :
                i < j => response.body[i].file_id[2] < response.body[j].file_id[2]

C10_Witness ==
    /\ response.op = "list_files"
    /\ response.status = 200
    /\ Len(response.body) >= 2

\* C11: a successful upload appends exactly one record to the registry,
\* under a file id the registry did not hold, describing the upload; every
\* other step leaves the registry as it was, so the records already there
\* are never changed or removed and the file ids stay distinct.
C11_Records ==
    /\ \A i, j \in 1..Len(files_db) :
          files_db[i].k = files_db[j].k => i = j
    /\ \A i \in 1..Len(files_db) : files_db[i].v.file_id = files_db[i].k

C11_RegistryOnlyGrows ==
    /\ []C11_Records
    /\ [][ /\ (response' # response /\ response'.op = "upload_file"
                  /\ response'.status = 200) =>
                 /\ response'.body.file_id \notin DictKeys(files_db)
                 /\ files_db' = Append(files_db,
                        [k |-> response'.body.file_id,
                         v |-> [file_id |-> response'.body.file_id,
                                filename |-> response'.arg,
                                uploaded_by |-> response'.cred[2].sub,
                                upload_date |-> Str(now),
                                file_path |-> PathJoin(FILE_STORAGE,
                                                       response'.body.file_id)]])
           /\ ~(response' # response /\ response'.op = "upload_file"
                  /\ response'.status = 200) => files_db' = files_db
         ]_vars

C11_Witness ==
    /\ Len(files_db) = 2
    /\ files_db[1].v.upload_date = Str(0)
    /\ files_db[2].v.upload_date = Str(1801)
    /\ response.op = "download_file"
    /\ response.status = 200

----------------------------------------------------------------------------
(* Login failures *)

\* what a refused login shows its caller
LoginFailure ==
    [status |-> 401, detail |-> "Incorrect username or password", body |-> <<>>]
Shown(r) == [status |-> r.status, detail |-> r.detail, body |-> r.body]

\* C12: a login with a username the credential store does not hold and a
\* login with a stored username and a wrong password are answered alike,
\* 401 with the same detail and no body, and neither changes any store.
C12_Responses ==
    response.op = "login" =>
        LET username == response.arg[1]
            password == response.arg[2]
        IN /\ Accounts(username) = {} => Shown(response) = LoginFailure
           /\ (Accounts(username) # {} /\ password # "secret")
                 => Shown(response) = LoginFailure

C12_FailedLoginsAreAlike ==
    /\ []C12_Responses
    /\ [][ (response'.op = "login" /\ response'.status # 200) =>
              UNCHANGED <<SECRET_KEY, fake_users_db, files_db, download_tokens_db,
                          storage, uuid_count, issued, uploads>>
         ]_vars

C12_Witness ==
    /\ response.op = "login"
    /\ response.arg = <<"nobody", "secret">>
    /\ Shown(response) = LoginFailure
    /\ issued["opsuser"] # <<>>

----------------------------------------------------------------------------
(* The two kinds of token *)

\* C13: a download token offered as the bearer credential is answered 401
\* by every guarded operation, and a bearer token offered for redemption is
\* answered 404; neither request changes the registry, the grants or the
\* stored bytes.
C13_Responses ==
    /\ (/\ response.op \in GuardedOps
        /\ Len(response.cred) = 1
        /\ Grants(response.cred[1]) # {})
          => /\ response.status = 401
             /\ response.body = <<>>
    /\ (response.op = "download_file" /\ Len(response.arg) = 3)
          => /\ response.status = 404
             /\ response.detail = "Invalid download link"

C13_TokensAreNotInterchangeable ==
    /\ []C13_Responses
    /\ [][ (\/ response'.op \in GuardedOps /\ Len(response'.cred) = 1
            \/ response'.op = "download_file" /\ Len(response'.arg) = 3)
              => UNCHANGED <<files_db, download_tokens_db, storage, uuid_count>>
         ]_vars

C13_Witness ==
    /\ response.op = "get_download_link"
    /\ Len(response.cred) = 1
    /\ \E g \in Grants(response.cred[1]) :
          /\ g.user_id = "clientuser"
          /\ g.file_id = response.arg
    /\ response.status = 401

----------------------------------------------------------------------------
(* The role the gates read *)

ValidlySigned(t) ==
    /\ Len(t) = 3
    /\ t[3] = HMAC(SECRET_KEY, <<t[1].alg, t[2]>>)

\* C14: for a validly signed, unexpired token of an existing subject, a
\* role-gated operation is let through or answered 403 according to the
\* role claim in the token, whatever role the credential store records.
C14_GateFollowsTokenRole ==
    (/\ ValidlySigned(response.cred)
     /\ InTime
     /\ Accounts(Caller) # {})
    => /\ response.op = "list_files" =>
             IF response.cred[2].user_type = "client"
             THEN response.status = 200
             ELSE response.status = 403
       /\ response.op = "upload_file" =>
             IF response.cred[2].user_type = "ops"
             THEN response.status \in {200, 400}
             ELSE response.status = 403

----------------------------------------------------------------------------
(* Order of the rejections *)

RoleGated == {"upload_file", "list_files", "get_download_link"}
Required(op) == IF op = "upload_file" THEN "ops" ELSE "client"

\* the credential is missing, malformed or badly signed, or the request
\* arrives at or after the token's expiry
BadToken ==
    \/ response.cred = NoCred
    \/ ~ValidlySigned(response.cred)
    \/ response.at >= response.cred[2].exp

\* C15: on a role-gated operation a missing, malformed, badly signed or
\* expired token is always answered 401; a good token of the wrong role is
\* always answered 403, whatever the file id or the filename; 404 and 400
\* are answered only to a caller of the required role.
C15_RejectionOrder ==
    response.op \in RoleGated =>
        /\ BadToken => response.status = 401
        /\ (~BadToken /\ StoredRoles(Caller) # {Required(response.op)})
              => response.status = 403
        /\ response.status \in {400, 404} =>
              /\ ~BadToken
              /\ StoredRoles(Caller) = {Required(response.op)}

----------------------------------------------------------------------------
(* The expiry create_access_token sets *)

\* C16: create_access_token sets the expiry to exactly the time of the
\* call plus the expires_delta it is given, a delta of zero included, and
\* a token made with a delta of zero is refused by the token check already
\* at the second it was made.
C16_ExpiryIsNowPlusTtl ==
    (response.op = "create_access_token" /\ response.arg.expires_delta # <<>>) =>
        /\ response.body[1][2].exp = response.at + response.arg.expires_delta[1]
        /\ response.arg.expires_delta[1] = 0 =>
              jwt_decode(response.body[1], SECRET_KEY, {ALGORITHM}, response.at)
                  = JWTError

----------------------------------------------------------------------------
(* Redemption *)

\* s continues r: r's entries are s's first entries, unaltered
Extends(s, r) == Len(s) >= Len(r) /\ SubSeq(s, 1, Len(r)) = r

\* C17: redeeming a download token changes neither the grant table nor the
\* registry and asks for no bearer credential; a token of the grant table
\* is served at every redemption, however often and whenever it is
\* presented, with the locator and filename of the first redemption.
C17_Responses ==
    (response.op = "download_file" /\ Grants(response.arg) # {}) =>
        /\ response.status = 200
        /\ response.cred = NoCred
        /\ \A g \in Grants(response.arg) :
              /\ response.body.path = PathJoin(FILE_STORAGE, g.file_id)
              /\ \A f \in Records(g.file_id) : response.body.filename = f.filename

C17_RedemptionIsRepeatable ==
    /\ []C17_Responses
    /\ [][ /\ response'.op = "download_file" =>
                 UNCHANGED <<files_db, download_tokens_db, storage, uuid_count,
                             issued>>
           /\ Extends(download_tokens_db', download_tokens_db)
           /\ Extends(files_db', files_db)
           /\ (/\ response.op = "download_file"
               /\ response'.op = "download_file"
               /\ response'.arg = response.arg
               /\ response.status = 200)
                 => /\ response'.status = 200
                    /\ response'.body.path = response.body.path
                    /\ response'.body.filename = response.body.filename
         ]_vars

C17_Witness ==
    /\ response.op = "download_file"
    /\ response.status = 200
    /\ \E g \in Grants(response.arg) : response.at > GrantExpiry(g)
    /\ \A t \in Held : response.at > t[2].exp

----------------------------------------------------------------------------
(* Uploads suspended at their awaits *)

\* the bytes stored at a path are an upload's bytes in full
Complete(path) ==
    \E i \in 1..Len(storage) : storage[i].k = path /\ storage[i].v \in Contents

\* C18: with uploads suspended at their awaits while other requests run,
\* a file id is in the registry only once its bytes are written in full: no
\* listing shows, no grant names and no redemption returns a file whose
\* bytes are absent or partial, and every upload in flight or finished
\* keeps its own stored file and its own record.
C18_State ==
    /\ \A i \in 1..Len(files_db) : Complete(files_db[i].v.file_path)
    /\ \A u \in uploads : Records(u.file_id) = {}
    /\ \A i \in 1..Len(download_tokens_db) :
          \A f \in Records(download_tokens_db[i].v.file_id) : Complete(f.file_path)
    /\ \A i \in 1..Len(download_tokens_db) :
          Records(download_tokens_db[i].v.file_id) # {}
    /\ (response.op = "list_files" /\ response.status = 200) =>
          \A i \in 1..Len(response.body) : Complete(response.body[i].file_path)
    /\ (response.op = "download_file" /\ response.status = 200) =>
          response.body.content \in Contents
    /\ \A i, j \in 1..Len(files_db) :
          (files_db[i].k = files_db[j].k
             \/ files_db[i].v.file_path = files_db[j].v.file_path) => i = j
    /\ \A u, w \in uploads : u.file_id = w.file_id => u = w
    /\ Len(storage) = Len(files_db) + Cardinality(uploads)
    /\ (response.op = "upload_file" /\ response.status = 200) =>
          \E f \in Records(response.body.file_id) : f.filename = response.arg

C18_VisibleOnlyWhenWritten ==
    /\ []C18_State
    /\ [][ /\ Extends(files_db', files_db)
           /\ Len(files_db') <= Len(files_db) + 1
           /\ (response.op = "list_files" /\ response.status = 200
                 /\ response' = response) =>
                 \A i \in 1..Len(response.body) : Complete(response.body[i].file_path)'
         ]_vars

C18_Witness ==
    /\ response.op = "list_files"
    /\ response.status = 200
    /\ Len(response.body) = 1
    /\ Len(files_db) = 1
    /\ \E u \in uploads :
          /\ u.pc = "written"
          /\ ~Complete(u.file_path)
          /\ u.file_id[2] < files_db[1].k[2]
    /\ \E u \in uploads : u.pc = "opened"

----------------------------------------------------------------------------
(* The secret key *)

\* the key a token was signed with
SigningKey(t) == t[3][2]

\* C19: no request changes the secret key, and the guard lets a login
\* token through at every second before its expiry as long as the process
\* holds the key that signed it; once a restart has replaced the key,
\* every token signed with the earlier key is answered 401.
C19_Responses ==
    (response.op \in GuardedOps /\ Len(response.cred) = 3) =>
        /\ (/\ SigningKey(response.cred) = SECRET_KEY
            /\ InTime
            /\ Accounts(Caller) # {})
              => response.status # 401
        /\ SigningKey(response.cred) # SECRET_KEY => response.status = 401

C19_KeyLivesWithTheProcess ==
    /\ []C19_Responses
    /\ [][ /\ response'.op # "none" => SECRET_KEY' = SECRET_KEY
           /\ SECRET_KEY' # SECRET_KEY =>
                 /\ files_db' = <<>>
                 /\ download_tokens_db' = <<>>
                 /\ issued' = issued
         ]_vars

C19_Witness ==
    /\ response.op = "read_users_me"
    /\ Len(response.cred) = 3
    /\ SigningKey(response.cred) # SECRET_KEY
    /\ InTime
    /\ response.status = 401
    /\ \E t \in Held : SigningKey(t) = SECRET_KEY

----------------------------------------------------------------------------
(* The grant table *)

\* C20: every grant names a file id of the registry and a grantee whose
\* role is client; a link request that succeeds appends one grant under a
\* token the table did not hold and alters no other; so a redemption never
\* finds a grant whose file is missing from the registry.
C20_State ==
    /\ \A i \in 1..Len(download_tokens_db) :
          /\ Records(download_tokens_db[i].v.file_id) # {}
          /\ StoredRoles(download_tokens_db[i].v.user_id) = {"client"}
    /\ \A i, j \in 1..Len(download_tokens_db) :
          download_tokens_db[i].k = download_tokens_db[j].k => i = j
    /\ response.op = "download_file" => response.detail # "File not found"

C20_GrantsNameRegisteredFiles ==
    /\ []C20_State
    /\ [][ /\ Extends(download_tokens_db', download_tokens_db)
           /\ (response' # response /\ response'.op = "get_download_link"
                 /\ response'.status = 200) =>
                 /\ response'.body.download_link[2] \notin DictKeys(download_tokens_db)
                 /\ download_tokens_db' = Append(download_tokens_db,
                        [k |-> response'.body.download_link[2],
                         v |-> [file_id |-> response'.arg,
                                user_id |-> response'.cred[2].sub,
                                expires |-> Str(now + timedelta(GRANT_EXPIRE_MINUTES))]])
           /\ ~(response' # response /\ response'.op = "get_download_link"
                 /\ response'.status = 200) =>
                 download_tokens_db' = download_tokens_db
         ]_vars

C20_Witness ==
    /\ Len(download_tokens_db) = 2
    /\ download_tokens_db[1].v.file_id = download_tokens_db[2].v.file_id
    /\ response.op = "download_file"
    /\ response.arg = download_tokens_db[1].k
    /\ response.status = 200

====
